---- MODULE Spec2Model ----
(***************************************************************************)
(* LinkedInEvolvedAPI (src/src/linkedin-api.py): the query builder and     *)
(* paginator of search_jobs, and the form extractor                        *)
(* get_fields_for_easy_apply.                                              *)
(*                                                                         *)
(* Text is a sequence of tokens: every character the code rewrites or      *)
(* splits on (space, quote, brace, parenthesis, comma, colon) is a token   *)
(* of its own, a run of other characters is one token.  An optional value  *)
(* (a Python value that may be None, a dict key that may be absent) is a   *)
(* sequence of length 0 or 1.                                              *)
(***************************************************************************)
EXTENDS Integers, Sequences, FiniteSets, TLC

VARIABLES
    args,            \* the arguments of the search_jobs call
    pc,              \* position in search_jobs
    limit,           \* local limit (None already replaced by -1)
    count,           \* local count
    query_string,    \* the serialized query
    results,         \* local results
    req,             \* default_params of the request in flight / last issued
    nreq,            \* number of requests issued through self._fetch
    elements,        \* data.get("included", []) of the last response
    exc,             \* exception search_jobs raised, "" if none
    src,             \* the paginated source behind self._fetch, when there is one
    fpc,             \* position in get_fields_for_easy_apply
    res,             \* response of the form fetch
    idx,             \* number of included items the form loop has consumed
    form_components, \* local form_components
    outcome          \* how get_fields_for_easy_apply ended

vars == <<args, pc, limit, count, query_string, results, req, nreq, elements,
          exc, src, fpc, res, idx, form_components, outcome>>

searchVars == <<args, pc, limit, count, query_string, results, req, nreq,
                elements, exc, src>>
formVars == <<fpc, res, idx, form_components, outcome>>

None == <<>>
Some(x) == <<x>>

(***************************************************************************)
(* Bounds of the model.                                                    *)
(***************************************************************************)
\* Linkedin._MAX_SEARCH_COUNT and Linkedin._MAX_REPEATED_REQUESTS are set by
\* the imported linkedin_api package (49 and 200 there); the code only reads
\* them.  The model takes small values so that both thresholds are reached.
MaxSearchCount == 2
MaxRepeatedRequests == 2
\* largest non-negative limit argument
MaxLimit == 3
\* largest offset argument
MaxOffset == 1
\* longest included list a search response carries
MaxPageLen == 2
\* longest keywords / location_name text, in tokens
MaxTextLen == 2
\* longest included list of a form response
MaxIncluded == 2

Min(a, b) == IF a < b THEN a ELSE b

\* all sequences over S of length at most n
SeqUpTo(S, n) == UNION {[1..k -> S] : k \in 0..n}

(***************************************************************************)
(* Query builder: search_jobs lines 91-128.                                *)
(***************************************************************************)
KEYWORD_PLACEHOLDER == "KEYWORD_PLACEHOLDER"
LOCATION_PLACEHOLDER == "LOCATION_PLACEHOLDER"

\* Python truthiness of an optional text or list: None and empty are false
Truthy(opt) == opt # None /\ opt[1] # <<>>

\* `x or ""`
OrEmpty(opt) == IF Truthy(opt) THEN opt[1] ELSE <<>>

RECURSIVE Join(_, _)
\* sep.join(parts), parts a sequence of texts
Join(parts, sep) ==
    IF parts = <<>> THEN <<>>
    ELSE IF Len(parts) = 1 THEN parts[1]
    ELSE parts[1] \o sep \o Join(Tail(parts), sep)

\* f"List({','.join(ids)})", ids a sequence of one-token identifiers
ListOf(ids) == <<"List", "(">> \o Join([i \in 1..Len(ids) |-> <<ids[i]>>], <<",">>) \o <<")">>

\* repr() of a str without quote characters
Repr(s) == <<"'">> \o s \o <<"'">>

\* one 'key': value item of str(dict)
Item(key, valueText) == Repr(<<key>>) \o <<":", " ">> \o valueText

\* str() of a dict whose items are already rendered
DictStr(items) == <<"{">> \o Join(items, <<",", " ">>) \o <<"}">>

Opt(cond, item) == IF cond THEN <<item>> ELSE <<>>

\* query["selectedFilters"], lines 99-117, rendered by str()
selectedFilters(a) ==
    DictStr(
        Opt(Truthy(a.companies), Item("company", Repr(ListOf(OrEmpty(a.companies)))))
     \o Opt(Truthy(a.experience), Item("experience", Repr(ListOf(OrEmpty(a.experience)))))
     \o Opt(Truthy(a.job_type), Item("jobType", Repr(ListOf(OrEmpty(a.job_type)))))
     \o Opt(Truthy(a.job_title), Item("title", Repr(ListOf(OrEmpty(a.job_title)))))
     \o Opt(Truthy(a.industries), Item("industry", Repr(ListOf(OrEmpty(a.industries)))))
     \o Opt(a.distance # None /\ a.distance # Some("0"),
            Item("distance", Repr(ListOf(a.distance))))
     \o Opt(Truthy(a.remote), Item("workplaceType", Repr(ListOf(OrEmpty(a.remote)))))
     \o Opt(a.easy_apply, Item("applyWithLinkedin", Repr(<<"List", "(", "true", ")">>)))
     \o <<Item("timePostedRange", Repr(<<"List", "(", "r", a.listed_at, ")">>))>>)

\* str(query), lines 91-121
QueryStr(a) ==
    DictStr(
        <<Item("origin", Repr(<<"JOB_SEARCH_PAGE_QUERY_EXPANSION">>))>>
     \o Opt(Truthy(a.keywords), Item("keywords", Repr(<<KEYWORD_PLACEHOLDER>>)))
     \o Opt(Truthy(a.location_name), Item("locationFallback", Repr(<<LOCATION_PLACEHOLDER>>)))
     \o <<Item("selectedFilters", selectedFilters(a))>>
     \o <<Item("spellCorrectionEnabled", Repr(<<"true">>))>>)

RECURSIVE Replace(_, _, _)
\* s.replace(old, new), old one token, new a text
Replace(s, old, new) ==
    IF s = <<>> THEN <<>>
    ELSE (IF Head(s) = old THEN new ELSE <<Head(s)>>) \o Replace(Tail(s), old, new)

\* lines 120-128
BuildQueryString(a) ==
    Replace(
     Replace(
      Replace(
       Replace(
        Replace(
         Replace(QueryStr(a), " ", <<>>),
         "'", <<>>),
        KEYWORD_PLACEHOLDER, OrEmpty(a.keywords)),
       LOCATION_PLACEHOLDER, OrEmpty(a.location_name)),
      "{", <<"(">>),
     "}", <<")">>)

(***************************************************************************)
(* Paginator: search_jobs lines 87-89 and 129-168.                         *)
(***************************************************************************)
JobPosting == "com.linkedin.voyager.dash.jobs.JobPosting"
JobPostingCard == "com.linkedin.voyager.dash.jobs.JobPostingCard"

\* an element of data["included"]: its "$type", its "trackingUrn" and its
\* "job_id" (absent until line 153 sets it)
Element(type, trackingUrn) ==
    [type |-> type, trackingUrn |-> trackingUrn, job_id |-> None]

RECURSIVE Split(_, _)
\* s.split(sep), sep one token: the list of the texts between the separators
Split(s, sep) ==
    IF \A i \in 1..Len(s) : s[i] # sep THEN <<s>>
    ELSE LET first == CHOOSE i \in 1..Len(s) :
                          s[i] = sep /\ \A j \in 1..(i - 1) : s[j] # sep
         IN <<SubSeq(s, 1, first - 1)>> \o Split(SubSeq(s, first + 1, Len(s)), sep)

\* lst[-1]
Last(lst) == lst[Len(lst)]

\* lines 150-153: the loop body's effect on e
SetJobId(e) ==
    IF Truthy(e.trackingUrn)
    THEN [e EXCEPT !.job_id = Some(Last(Split(e.trackingUrn[1], ":")))]
    ELSE e

\* line 154
IsJobPosting(e) == e.type = JobPosting

RECURSIVE Filter(_)
\* lines 148-155: new_data, from the elements as line 153 left them
Filter(elems) ==
    IF elems = <<>> THEN <<>>
    ELSE (IF IsJobPosting(Head(elems)) THEN <<Head(elems)>> ELSE <<>>)
         \o Filter(Tail(elems))

\* NextCount with the results already fetched left out of the remainder
NextCount_IgnoresResults(lim, n, cnt) ==
    IF lim > -1 /\ lim < cnt THEN lim ELSE cnt

\* lines 131-132: count for the coming request
NextCount(lim, n, cnt) ==
    IF lim > -1 /\ lim - n < cnt THEN lim - n ELSE cnt

\* line 138
RequestStart(n, off) == n + off

\* EmptyPage testing the raw included list instead of the filtered one
EmptyPage_RawList(new_data, elems) == elems = <<>>

\* line 157
EmptyPage(new_data, elems) == new_data = <<>>

\* line 161
LimitReached(lim, n) == -1 < lim /\ lim <= n

\* RatioReached without the threshold factor
RatioReached_NoFactor(n, cnt) == n >= cnt

\* RatioReached never firing
RatioReached_Never(n, cnt) == FALSE

\* line 162, for cnt # 0: len(results) / count >= Linkedin._MAX_REPEATED_REQUESTS
\* (true division of two small integers, compared with an integer)
RatioReached(n, cnt) == n >= MaxRepeatedRequests * cnt

\* StopTest with the ratio test moved in front of the limit test
StopTest_RatioFirst(lim, n, cnt, elems) ==
    IF cnt = 0 THEN "ZeroDivisionError"
    ELSE IF RatioReached(n, cnt) THEN "break"
    ELSE IF LimitReached(lim, n) THEN "break"
    ELSE IF Len(elems) = 0 THEN "break"
    ELSE "continue"

\* lines 160-164: what the stop test does with n = len(results) after extend.
\* `or` evaluates left to right and stops at the first true operand, so the
\* division is evaluated only when the limit test is false.
StopTest(lim, n, cnt, elems) ==
    IF LimitReached(lim, n) THEN "break"
    ELSE IF cnt = 0 THEN "ZeroDivisionError"
    ELSE IF RatioReached(n, cnt) THEN "break"
    ELSE IF Len(elems) = 0 THEN "break"
    ELSE "continue"

NoRequest == [count |-> 0, start |-> 0, query |-> <<>>]
NoSource == [N |-> 0, P |-> 0, noise |-> FALSE, served |-> 0]

\* lines 87-129: entry of search_jobs up to the loop
Enter ==
    /\ pc = "call"
    /\ count' = MaxSearchCount
    /\ limit' = IF args.limit = None THEN -1 ELSE args.limit[1]
    /\ query_string' = BuildQueryString(args)
    /\ results' = <<>>
    /\ pc' = "loop"
    /\ UNCHANGED <<args, req, nreq, elements, exc, src>>
    /\ UNCHANGED formVars

\* lines 130-144: the head of one round, up to the call of self._fetch
Request ==
    /\ pc = "loop"
    /\ count' = NextCount(limit, Len(results), count)
    /\ req' = [count |-> count',
               start |-> RequestStart(Len(results), args.offset),
               query |-> query_string]
    /\ nreq' = nreq + 1
    /\ pc' = "await"
    /\ UNCHANGED <<args, limit, query_string, results, elements, exc, src>>
    /\ UNCHANGED formVars

\* the elements a search response may carry
UrnJob == <<"urn", ":", "li", ":", "fsd_jobPosting", ":", "987654">>
Catalogue ==
    { Element(JobPosting, Some(UrnJob)),
      Element(JobPosting, None),
      Element(JobPostingCard, Some(<<"987655">>)) }

\* lines 141-147: self._fetch returns, whatever the server chose to send
Respond ==
    /\ pc = "await"
    /\ \E page \in SeqUpTo(Catalogue, MaxPageLen) : elements' = page
    /\ pc' = "recv"
    /\ UNCHANGED <<args, limit, count, query_string, results, req, nreq, exc, src>>
    /\ UNCHANGED formVars

\* lines 148-166: the rest of the round
Process ==
    /\ pc = "recv"
    /\ LET marked == [i \in 1..Len(elements) |-> SetJobId(elements[i])]
           new_data == Filter(marked)
       IN /\ elements' = marked
          /\ IF EmptyPage(new_data, marked)
             THEN /\ pc' = "done"
                  /\ UNCHANGED <<results, exc>>
             ELSE /\ results' = results \o new_data
                  /\ LET t == StopTest(limit, Len(results'), count, marked)
                     IN CASE t = "break" -> pc' = "done" /\ exc' = exc
                          [] t = "continue" -> pc' = "loop" /\ exc' = exc
                          [] OTHER -> pc' = "raise" /\ exc' = t
    /\ UNCHANGED <<args, limit, count, query_string, req, nreq, src>>
    /\ UNCHANGED formVars

(***************************************************************************)
(* A paginated source behind self._fetch: it holds src.N job postings and  *)
(* serves them in order, at most src.P (and at most the requested count)   *)
(* per response; with src.noise every response also carries a card that    *)
(* is no job posting.                                                      *)
(***************************************************************************)
SourceElement(i) ==
    Element(JobPosting, Some(<<"urn", ":", "li", ":", "fsd_jobPosting", ":", ToString(i)>>))

Card == Element(JobPostingCard, Some(<<"987655">>))

SourcePage(s, cnt) ==
    LET k == Min(Min(s.P, cnt), s.N - s.served)
    IN (IF s.noise THEN <<Card>> ELSE <<>>)
       \o [i \in 1..k |-> SourceElement(s.served + i)]

\* lines 141-147 against the paginated source
RespondPaged ==
    /\ pc = "await"
    /\ elements' = SourcePage(src, req.count)
    /\ src' = [src EXCEPT !.served = @ + Len(Filter(elements'))]
    /\ pc' = "recv"
    /\ UNCHANGED <<args, limit, count, query_string, results, req, nreq, exc>>
    /\ UNCHANGED formVars

(***************************************************************************)
(* Arguments and initial states.                                           *)
(***************************************************************************)
\* limit: None, the unbounded sentinel -1, or a bound
LimitArgs == {None} \cup {Some(n) : n \in (-1)..MaxLimit}

\* offset: nothing skipped, or MaxOffset results skipped
OffsetArgs == {0, MaxOffset}

\* the filters of the example call, line 258
ExampleArgs(lim, off) ==
    [keywords |-> Some(<<"Frontend", " ", "Developer">>),
     location_name |-> Some(<<"Italia">>),
     companies |-> None, experience |-> None, job_type |-> None,
     job_title |-> None, industries |-> None, remote |-> None,
     listed_at |-> "86400", distance |-> None, easy_apply |-> TRUE,
     limit |-> lim, offset |-> off]

SearchIdle ==
    /\ pc = "call"
    /\ limit = -1
    /\ count = 0
    /\ query_string = <<>>
    /\ results = <<>>
    /\ req = NoRequest
    /\ nreq = 0
    /\ elements = <<>>
    /\ exc = ""

NoResponse == [status_code |-> 0, parses |-> FALSE, included |-> <<>>]
NoOutcome == [kind |-> "running", value |-> <<>>, exc |-> ""]

FormIdle ==
    /\ fpc = "idle"
    /\ res = NoResponse
    /\ idx = 0
    /\ form_components = <<>>
    /\ outcome = NoOutcome

\* search_jobs against a server that may answer anything
Init ==
    /\ \E lim \in LimitArgs, off \in OffsetArgs : args = ExampleArgs(lim, off)
    /\ src = NoSource
    /\ SearchIdle
    /\ FormIdle

Next == Enter \/ Request \/ Respond \/ Process

Spec == Init /\ [][Next]_vars

\* search_jobs against a paginated source
InitPaged ==
    /\ \E lim \in LimitArgs, off \in OffsetArgs : args = ExampleArgs(lim, off)
    /\ \E n \in 0..(MaxSearchCount * MaxRepeatedRequests), p \in 1..MaxSearchCount,
          z \in BOOLEAN :
          src = [N |-> n, P |-> p, noise |-> z, served |-> 0]
    /\ SearchIdle
    /\ FormIdle

NextPaged == Enter \/ Request \/ RespondPaged \/ Process

SpecPaged == InitPaged /\ [][NextPaged]_vars

(***************************************************************************)
(* Form extractor: get_fields_for_easy_apply lines 170-253.                *)
(*                                                                         *)
(* An item of data["included"] is [urn, title, formComponent]:             *)
(*   title          None when the key is absent, else Some(t) with t.kind  *)
(*                  "null", "str" or "obj" and t.text the optional "text"  *)
(*                  entry of an object;                                    *)
(*   formComponent  None when the key is absent, else Some(c) with c.keys  *)
(*                  the keys of the object and c.details the value of its  *)
(*                  first key: the optional lists "textSelectableOptions"  *)
(*                  (of options) and "selectableOptions" (of objects that  *)
(*                  wrap an option).                                       *)
(* The session holds a JSESSIONID cookie (the constructor logged in) and   *)
(* a body that parses is a JSON object.                                    *)
(***************************************************************************)
Ok(v) == [exc |-> "", val |-> v]
Raise(e) == [exc |-> e, val |-> ""]

\* line 226: item['title']['text']
TitleText(item) ==
    IF item.title = None THEN Raise("KeyError")
    ELSE IF item.title[1].kind # "obj" THEN Raise("TypeError")
    ELSE IF item.title[1].text = None THEN Raise("KeyError")
    ELSE Ok(item.title[1].text[1])

\* lines 225-228: try ... except TypeError
Title(item) ==
    LET t == TitleText(item)
    IN IF t.exc = "TypeError" THEN Ok(item.urn) ELSE t

\* lines 239-249: the selectable options, None when neither shape matches
Options(details) ==
    IF details.textSelectableOptions # None
    THEN LET opts == details.textSelectableOptions[1]
         IN Some([i \in 1..Len(opts) |-> opts[i].optionText.text])
    ELSE IF details.selectableOptions # None
    THEN LET opts == details.selectableOptions[1]
         IN Some([i \in 1..Len(opts) |-> opts[i].textSelectableOption.optionText.text])
    ELSE None

\* lines 224-251: one qualifying item; the component_info or the exception
Flatten(item) ==
    LET title == Title(item)
        fc == item.formComponent[1]
    IN IF title.exc # "" THEN Raise(title.exc)
       ELSE IF fc.keys = <<>> THEN Raise("IndexError")
       ELSE Ok([title |-> title.val,
                urn |-> item.urn,
                formComponentType |-> fc.keys[1],
                selectableOptions |-> Options(fc.details)])

\* StatusCase with the catch-all case left out
StatusCase_Only409(status_code) ==
    IF status_code = 409 THEN "return" ELSE "pass"

\* lines 204-212: match res.status_code
StatusCase(status_code) ==
    CASE status_code = 200 -> "pass"
      [] status_code = 409 -> "return"
      [] OTHER -> "return"

\* lines 214-218: res.json() raises ValueError on a body that does not parse
ParseCase(parses) == IF parses THEN "pass" ELSE "return"

Returned(v) == [kind |-> "return", value |-> v, exc |-> ""]
Raised(e) == [kind |-> "raise", value |-> <<>>, exc |-> e]

\* lines 179-202: headers, parameters, and the call of self._fetch
get_fields_for_easy_apply ==
    /\ fpc = "idle"
    /\ fpc' = "await"
    /\ UNCHANGED <<res, idx, form_components, outcome>>
    /\ UNCHANGED searchVars

Titles ==
    { None,
      Some([kind |-> "null", text |-> None]),
      Some([kind |-> "str", text |-> None]),
      Some([kind |-> "obj", text |-> None]),
      Some([kind |-> "obj", text |-> Some("Email")]) }

Option(text) == [optionText |-> [text |-> text]]
Wrapped(text) == [textSelectableOption |-> Option(text)]

FlatLists == {None, Some(<<Option("A"), Option("B")>>)}
NestedLists == {None, Some(<<Wrapped("A"), Wrapped("B")>>)}

FormComponents ==
    {None, Some([keys |-> <<>>, details |-> [textSelectableOptions |-> None,
                                              selectableOptions |-> None]])}
    \cup {Some([keys |-> <<"multipleChoice">>,
                details |-> [textSelectableOptions |-> f, selectableOptions |-> n]]) :
             f \in FlatLists, n \in NestedLists}

ItemKinds == [title : Titles, formComponent : FormComponents]

\* the included lists of at most n items; the i-th item has urn i
Bodies(n) ==
    UNION { { [i \in 1..k |-> [urn |-> ToString(i), title |-> b[i].title,
                               formComponent |-> b[i].formComponent]] :
                b \in [1..k -> ItemKinds] } :
            k \in 0..n }

GoodItem ==
    [urn |-> "1", title |-> Some([kind |-> "obj", text |-> Some("Email")]),
     formComponent |-> Some([keys |-> <<"multipleChoice">>,
                             details |-> [textSelectableOptions |->
                                              Some(<<Option("A"), Option("B")>>),
                                          selectableOptions |-> None]])]

\* the responses whose included list holds at most n items
Responses(n) ==
    {[status_code |-> 200, parses |-> TRUE, included |-> b] : b \in Bodies(n)}
    \cup {[status_code |-> st, parses |-> ps, included |-> b] :
             st \in {409, 500, 404}, ps \in BOOLEAN, b \in {<<>>, <<GoodItem>>}}
    \cup {[status_code |-> 200, parses |-> FALSE, included |-> <<>>]}

\* self._fetch returns, line 198
FormRespond ==
    /\ fpc = "await"
    /\ res' \in Responses(MaxIncluded)
    /\ fpc' = "match"
    /\ UNCHANGED <<idx, form_components, outcome>>
    /\ UNCHANGED searchVars

\* lines 204-212
MatchStatus ==
    /\ fpc = "match"
    /\ IF StatusCase(res.status_code) = "pass"
       THEN fpc' = "parse" /\ outcome' = outcome
       ELSE fpc' = "done" /\ outcome' = Returned(<<>>)
    /\ UNCHANGED <<res, idx, form_components>>
    /\ UNCHANGED searchVars

\* lines 214-220
ParseBody ==
    /\ fpc = "parse"
    /\ IF ParseCase(res.parses) = "pass"
       THEN fpc' = "for" /\ outcome' = outcome
       ELSE fpc' = "done" /\ outcome' = Returned(<<>>)
    /\ idx' = 0
    /\ form_components' = <<>>
    /\ UNCHANGED res
    /\ UNCHANGED searchVars

\* lines 222-251: one turn of the for loop
ForItem ==
    /\ fpc = "for"
    /\ idx < Len(res.included)
    /\ idx' = idx + 1
    /\ LET item == res.included[idx + 1]
       IN IF item.formComponent = None
          THEN UNCHANGED <<fpc, form_components, outcome>>
          ELSE LET r == Flatten(item)
               IN IF r.exc = ""
                  THEN /\ form_components' = Append(form_components, r.val)
                       /\ UNCHANGED <<fpc, outcome>>
                  ELSE /\ fpc' = "done"
                       /\ outcome' = Raised(r.exc)
                       /\ UNCHANGED form_components
    /\ UNCHANGED res
    /\ UNCHANGED searchVars

\* line 253
ReturnForm ==
    /\ fpc = "for"
    /\ idx = Len(res.included)
    /\ fpc' = "done"
    /\ outcome' = Returned(form_components)
    /\ UNCHANGED <<res, idx, form_components>>
    /\ UNCHANGED searchVars

InitForm ==
    /\ args = ExampleArgs(Some(5), 1)
    /\ src = NoSource
    /\ SearchIdle
    /\ FormIdle

NextForm == get_fields_for_easy_apply \/ FormRespond \/ MatchStatus \/ ParseBody
            \/ ForItem \/ ReturnForm

SpecForm == InitForm /\ [][NextForm]_vars

\* the query builder alone: the call enters search_jobs and serializes
TextTokens == {"dev", " ", "'", "{", ")"}
Texts == {None} \cup {Some(t) : t \in SeqUpTo(TextTokens, MaxTextLen)}
IdLists == {None, Some(<<"1", "2">>)}

QueryArgs ==
    [keywords : Texts, location_name : Texts,
     companies : IdLists, experience : {None}, job_type : {None},
     job_title : {None}, industries : {None}, remote : IdLists,
     listed_at : {"86400"}, distance : {None, Some("0"), Some("25")},
     easy_apply : BOOLEAN, limit : {Some(5)}, offset : {1}]

InitQuery ==
    /\ args \in QueryArgs
    /\ src = NoSource
    /\ SearchIdle
    /\ FormIdle

NextQuery == Enter

SpecQuery == InitQuery /\ [][NextQuery]_vars

(***************************************************************************)
(* Claims about search_jobs.                                               *)
(***************************************************************************)
Ceil(n, p) == (n + p - 1) \div p

\* every job posting of the source, as search_jobs returns it
AllOfSource == [i \in 1..src.N |-> SetJobId(SourceElement(i))]

PagedCase ==
    /\ limit = -1
    /\ src.P < src.N
    /\ src.P <= MaxSearchCount
    /\ src.N < MaxSearchCount * MaxRepeatedRequests

\* C1 as stated: against a paginated source of N job postings served P per
\* page (P < N, N below page size x threshold), limit = -1 returns all N with
\* exactly ceil(N/P) requests, each starting at offset plus the matches served
\* by the earlier pages.
C1_Original ==
    /\ (pc = "await" /\ PagedCase) => req.start = args.offset + src.served
    /\ (pc = "done" /\ PagedCase) =>
          results = AllOfSource /\ nreq = Ceil(src.N, src.P)

\* C1 amended: the same, with ceil(N/P) + 1 requests; the last one is
\* answered without any job posting and is what ends the loop.
C1_Paged ==
    /\ (pc = "await" /\ PagedCase) => req.start = args.offset + src.served
    /\ (pc = "done" /\ PagedCase) =>
          /\ results = AllOfSource
          /\ nreq = Ceil(src.N, src.P) + 1
          /\ Filter(elements) = <<>>

C1_Witness ==
    /\ pc = "done" /\ PagedCase
    /\ src.N = 3 /\ src.P = 2 /\ args.offset = MaxOffset
    /\ Len(results) = 3 /\ nreq = 3

\* C2: with 0 <= limit < max page size and a first page holding more than
\* limit job postings, exactly limit results come back from one request with
\* count = limit.  (Stated for limit >= 1.)
C2_LimitHonoured ==
    (pc = "done" /\ limit \in 1..(MaxSearchCount - 1) /\ nreq = 1
        /\ Len(Filter(elements)) > limit)
    => (Len(results) = limit /\ req.count = limit)

\* C3: a response without any job posting ends the loop: no request follows
\* it and results stay as they were, whatever limit is.
C3_EmptyPageStops ==
    [][ /\ (pc = "recv" /\ Filter(elements) = <<>>) =>
              (pc' = "done" /\ results' = results /\ nreq' = nreq)
        /\ pc = "done" => (pc' = "done" /\ results' = results /\ nreq' = nreq) ]_vars

C3_Witness ==
    /\ pc = "done"
    /\ elements # <<>> /\ Filter(elements) = <<>>
    /\ 0 < Len(results) /\ Len(results) < limit

\* the text after the last ":" of s (all of s when it has none)
AfterLastColon(s) ==
    LET colons == {i \in 1..Len(s) : s[i] = ":"}
        k == IF colons = {} THEN 0 ELSE CHOOSE i \in colons : \A j \in colons : j <= i
    IN SubSeq(s, k + 1, Len(s))

\* C5: every returned element is a job posting and carries the job_id that
\* follows the last colon of its tracking identifier; none lacks a job_id.
\* (Stated for the default limit = -1.)
C5_EveryResultHasJobId ==
    (pc = "done" /\ limit = -1) =>
        \A i \in 1..Len(results) :
            /\ results[i].type = JobPosting
            /\ results[i].job_id # None
            /\ results[i].trackingUrn # None
            /\ results[i].job_id[1] = AfterLastColon(results[i].trackingUrn[1])

\* text t occurs in text s
Contains(s, t) ==
    \E i \in 0..(Len(s) - Len(t)) : SubSeq(s, i + 1, i + Len(t)) = t

\* C6: the serialized query holds the keywords and the location text exactly
\* as supplied.
C6_FreeTextSurvives ==
    pc = "loop" =>
        /\ Contains(query_string, OrEmpty(args.keywords))
        /\ Contains(query_string, OrEmpty(args.location_name))

\* C7: every request has start = offset + results so far and count = the
\* remainder limit - results when limit >= 0 and the remainder is below the
\* max page size, else the max page size.
C7_RequestParams ==
    pc = "await" =>
        /\ req.start = args.offset + Len(results)
        /\ req.count = (IF limit >= 0 /\ limit - Len(results) < MaxSearchCount
                        THEN limit - Len(results) ELSE MaxSearchCount)
        /\ req.count <= MaxSearchCount
        /\ limit >= 0 => req.count <= limit - Len(results)

C7_Witness ==
    /\ pc = "await" /\ nreq >= 2
    /\ args.offset > 0
    /\ 0 < req.count /\ req.count < MaxSearchCount

\* C8: the loop ends: it goes round again only while the results are below
\* limit (limit >= 0) or below threshold x page size (limit = -1), every
\* round that goes round again has added a result, so the requests are
\* bounded.
C8_Terminates ==
    /\ (pc = "loop" /\ nreq > 0) =>
          /\ limit >= 0 => Len(results) < limit
          /\ limit = -1 => Len(results) < MaxRepeatedRequests * count
    /\ pc # "call" => nreq <= Len(results) + 1
    /\ pc # "call" =>
          nreq <= (IF limit = -1 THEN MaxRepeatedRequests * MaxSearchCount
                   ELSE IF limit = 0 THEN 1 ELSE limit)

\* the server sent the same single job posting every time
C8_Witness ==
    /\ pc = "done" /\ limit = -1
    /\ nreq = MaxRepeatedRequests * MaxSearchCount
    /\ Len(results) = nreq
    /\ \A i \in 1..Len(results) : results[i] = results[1]

\* C10: the ratio of line 162 is never evaluated with count = 0, and count is
\* never negative.
C10_NoZeroDivision ==
    /\ pc # "raise"
    /\ exc = ""
    /\ pc # "call" => count >= 0
    /\ (pc = "loop" /\ nreq > 0) => count > 0

\* count was lowered to 0 and the response still carried a job posting
C10_Witness ==
    /\ pc = "done" /\ count = 0 /\ Len(results) > 0

(***************************************************************************)
(* Claims about get_fields_for_easy_apply.                                 *)
(***************************************************************************)
\* C4: status 409, any other status but 200, and status 200 with a body that
\* does not parse all return the empty list and raise nothing; a non-empty
\* list comes only from status 200 with a body that parses.
C4_StatusMapping ==
    fpc = "done" =>
        /\ (res.status_code # 200 \/ ~res.parses) => outcome = Returned(<<>>)
        /\ (outcome.kind = "return" /\ outcome.value # <<>>) =>
               (res.status_code = 200 /\ res.parses)

\* a 409 whose body would have yielded a field
C4_Witness ==
    /\ fpc = "done"
    /\ res.status_code = 409 /\ res.parses /\ res.included = <<GoodItem>>
    /\ outcome = Returned(<<>>)

RECURSIVE Qualifying(_)
\* the items that contain a formComponent key, in source order
Qualifying(items) ==
    IF items = <<>> THEN <<>>
    ELSE (IF Head(items).formComponent # None THEN <<Head(items)>> ELSE <<>>)
         \o Qualifying(Tail(items))

HasTitleText(item) ==
    item.title # None /\ item.title[1].kind = "obj" /\ item.title[1].text # None

NeitherShape(item) ==
    /\ item.formComponent[1].details.textSelectableOptions = None
    /\ item.formComponent[1].details.selectableOptions = None

\* C9: for status 200 and a body that parses, one FormField per item with a
\* formComponent key, in source order, no failure: the title is the item's
\* text, or its identifier when the text is absent, and an item matching
\* neither options shape is emitted without options.  (Stated for items
\* whose formComponent object has its one key.)
C9_OneFieldPerComponent ==
    (fpc = "done" /\ res.status_code = 200 /\ res.parses
        /\ \A i \in 1..Len(res.included) :
               res.included[i].formComponent # None =>
                   res.included[i].formComponent[1].keys # <<>>) =>
        LET q == Qualifying(res.included)
        IN /\ outcome.kind = "return"
           /\ Len(outcome.value) = Len(q)
           /\ \A i \in 1..Len(q) :
                 /\ outcome.value[i].urn = q[i].urn
                 /\ outcome.value[i].title =
                        (IF HasTitleText(q[i]) THEN q[i].title[1].text[1] ELSE q[i].urn)
                 /\ NeitherShape(q[i]) => outcome.value[i].selectableOptions = None

====
